---- MODULE Spec2Model ----
(***************************************************************************)
(* State-machine model of the SWX Time Tracker session lifecycle:          *)
(*   SWXTimeTracker        (src/src/extension.ts)                          *)
(*   IdleDetectionService  (src/src/models.ts, lines 200-411)              *)
(*   DataService           (src/src/models.ts, lines 419-698)              *)
(*                                                                         *)
(* JavaScript runs every handler to completion up to its next await.  An   *)
(* await of a host promise (globalState.update, showInputBox) or of an     *)
(* async function that contains one is a point where timers, commands and  *)
(* other continuations may run.  An await of an already resolved promise   *)
(* (getCurrentSession, getAllEntries, getMetadata, the return of an async  *)
(* function) resumes in the microtask queue, before any timer, command or  *)
(* host completion; the only code that runs in between is the synchronous  *)
(* rest of the caller, which matters in one place: the constructor calls   *)
(* loadExistingSession without awaiting it, and activate() goes on to run  *)
(* the autoStart command.                                                  *)
(*                                                                         *)
(* The persistence port is a whole-value key/value store: get returns the  *)
(* stored value, update stores the (JSON) value of its argument when it is *)
(* called and its promise resolves later.                                  *)
(*                                                                         *)
(* TimeEntry objects live in a heap, because the engine, the idle          *)
(* detector and the in-flight handlers share references to them; a cell    *)
(* nothing refers to any more is collected and reused.                     *)
(* SessionState.lastActivity, TrackerMetadata.version and .lastSaved are   *)
(* written but never read by the program and are left out, and so are the  *)
(* messages shown to the user: a handler whose code after its last await   *)
(* only shows a message ends with that await's call.                       *)
(***************************************************************************)
EXTENDS Integers, Sequences, FiniteSets, TLC

VARIABLES
    now,        \* Date.now(), in model time units
    ids,        \* the session ids handed out so far (id = String(Date.now()))
    project,    \* vscode.workspace.name of the running window
    autoSaveInterval, \* configuration timeTracker.autoSaveInterval
    idleThreshold,    \* configuration timeTracker.idleThreshold
    out,        \* the result of the last query (report, export), or None
    life,       \* activate/deactivate: [autoStart, phase, found]
    restarts,   \* number of process restarts so far
    entries,    \* durable slot 'timeEntries': the entry log
    slot,       \* durable slot 'currentSession': None or Some(entry)
    metadata,   \* durable slot 'metadata': None or Some(TrackerMetadata)
    heap,       \* TimeEntry objects of the running process, by reference
    session,    \* SWXTimeTracker.session: [isTracking, cur]
    autoSave,   \* SWXTimeTracker.autoSaveTimer: [timer, live]
    idle,       \* IdleDetectionService fields
    tasks,      \* async invocations suspended at an await
    used,       \* how many checkpoint ticks, comments and failed writes
                \* have been spent
    fired,      \* history: session ids the idle callback was invoked for
    lastDone    \* history: the last stop-like operation that completed
                \* since the last startTracking ("none" if none)

vars == <<now, ids, project, autoSaveInterval, idleThreshold, out, life,
          restarts, entries, slot, metadata, heap, session, autoSave, idle,
          tasks, used, fired, lastDone>>

durable == <<entries, slot, metadata>>

(* what the host gives the process: workspace name, settings, query       *)
(* results and the activation it is in                                     *)
env == <<project, autoSaveInterval, idleThreshold, out, life>>

\* everything else: the clock, the durable slots and the engine
engine == <<now, ids, restarts, entries, slot, metadata, heap, session,
            autoSave, idle, tasks, used, fired, lastDone>>

----------------------------------------------------------------------------
(* Bounds of the model *)

MaxTime == 3
MaxRestarts == 1
MaxTasks == 2
MaxObjs == 3
MaxLog == 2
MaxSessions == 2
MaxCheckpoints == 1
MaxComments == 1
MaxFailures == 1

(* Program constants, scaled to model time units *)

\* timeTracker.idleThreshold (default 600 s), in model time units
IdleThreshold == 1
\* timeTracker.autoSaveInterval (default 300 s)
AutoSaveInterval == 300
\* the values the setting is given: disabled, negative, the default
AutoSaveIntervals == {0, -1, AutoSaveInterval}
\* the values the idle threshold is given: negative, zero, the default
IdleThresholds == {-1, 0, IdleThreshold}
\* length of a calendar day (date = toISOString().slice(0, 10))
DayLen == 2

Projects == {"p1", "p2"}
CommentInputs == {"", "c1"}

----------------------------------------------------------------------------
(* Optional values: undefined is None, a present value v is Some(v) *)

None == <<>>
Some(v) == <<v>>

\* JavaScript truthiness of an optional number: undefined and 0 are falsy
Truthy(opt) == opt # None /\ opt[1] # 0

\* JavaScript (x || 0) for an optional number
OrZero(opt) == IF Truthy(opt) THEN opt[1] ELSE 0

Last(s) == s[Len(s)]

\* new Date().toISOString().slice(0, 10): the calendar day of an instant
DateOf(t) == t \div DayLen

----------------------------------------------------------------------------
(* TimeEntry (models.ts 46-67) and the heap of TimeEntry objects *)

\* a new entry that already carries a duration
NewEntry_withDuration(t, proj) ==
    [id |-> t, date |-> DateOf(t), startTime |-> t, endTime |-> None,
     duration |-> Some(0), comment |-> "", project |-> proj]

NewEntry(t, proj) ==
    [id |-> t, date |-> DateOf(t), startTime |-> t, endTime |-> None,
     duration |-> None, comment |-> "", project |-> proj]

NoRef == 0
Cells == 1 .. MaxObjs
FreeCell == NewEntry(0, "")
EmptyHeap == [r \in Cells |-> FreeCell]

\* the references held by the engine, the idle detector and the handlers
Refs(sess, idl, tsks) ==
    {sess.cur, idl.cur} \cup {t.ref : t \in tsks} \cup {t.cs : t \in tsks}

\* garbage collection: cells nothing refers to are freed
Sweep(h, sess, idl, tsks) ==
    [r \in Cells |-> IF r \in Refs(sess, idl, tsks) THEN h[r] ELSE FreeCell]

HeapFull == Cells \subseteq Refs(session, idle, tasks)
NewRef == CHOOSE r \in Cells :
              /\ r \notin Refs(session, idle, tasks)
              /\ \A q \in Cells : q < r => q \in Refs(session, idle, tasks)

\* TrackerMetadata as created by initializeMetadata (models.ts 433-438)
FreshMetadata == [totalTrackedMs |-> 0, projectCount |-> 0,
                  firstTrackingDate |-> None]

Task(op, pc, ref, cs, la, ents, meta) ==
    [op |-> op, pc |-> pc, ref |-> ref, cs |-> cs, la |-> la,
     ents |-> ents, meta |-> meta]

\* an invocation waiting in the microtask queue
MicrotaskPending == \E t \in tasks : t.pc = "get"

\* no operation is in flight
Quiescent == tasks = {}

----------------------------------------------------------------------------
(* IdleDetectionService (models.ts 200-411) *)

\* stopTracking(): models.ts 235-249
IdleDetectionService_stopTracking(i) ==
    [i EXCEPT !.isTracking = FALSE, !.cur = NoRef, !.cb = FALSE,
              !.live = IF i.timer THEN i.live - 1 ELSE i.live,
              !.timer = FALSE]

\* startTracking that keeps the last activity it finds
IdleDetectionService_startTracking_keepActivity(i, ref, t) ==
    LET s == IdleDetectionService_stopTracking(i) IN
    [s EXCEPT !.isTracking = TRUE, !.cur = ref, !.cb = TRUE,
              !.timer = TRUE, !.live = s.live + 1]

\* startTracking(session, onTimeout): models.ts 218-230
IdleDetectionService_startTracking(i, ref, t) ==
    LET s == IdleDetectionService_stopTracking(i) IN
    [s EXCEPT !.isTracking = TRUE, !.cur = ref, !.cb = TRUE,
              !.lastActivity = t, !.timer = TRUE, !.live = s.live + 1]

\* getIdleThreshold(): models.ts 277-281
getIdleThreshold == idleThreshold

\* shouldResumeSession that also resumes a session exactly as old as the threshold
shouldResumeSession_inclusive(e, t) ==
    IF e.startTime = 0 THEN FALSE
    ELSE t - e.startTime <= getIdleThreshold

\* shouldResumeSession(session): models.ts 359-368
shouldResumeSession(e, t) ==
    IF e.startTime = 0 THEN FALSE
    ELSE t - e.startTime < getIdleThreshold

\* autoStopOldSession that sets the end time and leaves the duration as read
autoStopOldSession_keepDuration(e) ==
    [e EXCEPT !.endTime = Some(e.startTime + getIdleThreshold)]

\* autoStopOldSession(session): models.ts 375-383
autoStopOldSession(e) ==
    [e EXCEPT !.endTime = Some(e.startTime + getIdleThreshold),
              !.duration = Some(getIdleThreshold)]

----------------------------------------------------------------------------
(* SWXTimeTracker timers (extension.ts 255-298) *)

\* stopAutoSave(): extension.ts 293-298
stopAutoSave(a) ==
    IF a.timer THEN [timer |-> FALSE, live |-> a.live - 1] ELSE a

\* startAutoSave that takes only a negative interval as disabled
startAutoSave_negativeOnly(a) ==
    IF autoSaveInterval < 0 THEN a
    ELSE LET s == stopAutoSave(a) IN [timer |-> TRUE, live |-> s.live + 1]

\* startAutoSave(): extension.ts 255-288 (arming the interval)
startAutoSave(a) ==
    IF autoSaveInterval <= 0 THEN a
    ELSE LET s == stopAutoSave(a) IN [timer |-> TRUE, live |-> s.live + 1]

----------------------------------------------------------------------------
(* DataService.saveEntry (models.ts 455-474) *)

\* the metadata update of saveEntry without the running total
UpdateMetadata_noTotal(m, e, all) ==
    [m EXCEPT !.firstTrackingDate =
                  IF @ = None \/ e.date < @[1] THEN Some(e.date) ELSE @,
              !.projectCount =
                  Cardinality({all[k].project : k \in DOMAIN all})]

\* the metadata update of saveEntry that keeps the first date it was given
UpdateMetadata_firstDateOnly(m, e, all) ==
    [m EXCEPT !.totalTrackedMs = @ + OrZero(e.duration),
              !.firstTrackingDate = IF @ = None THEN Some(e.date) ELSE @,
              !.projectCount =
                  Cardinality({all[k].project : k \in DOMAIN all})]

\* the metadata update of saveEntry: models.ts 461-469
UpdateMetadata(m, e, all) ==
    [m EXCEPT !.totalTrackedMs = @ + OrZero(e.duration),
              !.firstTrackingDate =
                  IF @ = None \/ e.date < @[1] THEN Some(e.date) ELSE @,
              !.projectCount =
                  Cardinality({all[k].project : k \in DOMAIN all})]

(* saveEntry(entry) from its call to its first host await.  With metadata  *)
(* present it reads the log and the metadata, pushes the entry and issues  *)
(* the write of the log; with metadata absent, initializeMetadata          *)
(* (models.ts 430-442) first writes fresh metadata and awaits that write.  *)
saveEntry(base, op, ref, cs, la, e) ==
    /\ Len(entries) < MaxLog
    /\ IF metadata # None
       THEN LET all == Append(entries, e) IN
            /\ entries' = all
            /\ metadata' = metadata
            /\ tasks' = base \cup
                  {Task(op, "entries", ref, cs, la, <<>>,
                        Some(UpdateMetadata(metadata[1], e, all)))}
       ELSE /\ metadata' = Some(FreshMetadata)
            /\ entries' = entries
            /\ tasks' = base \cup
                  {Task(op, "init", ref, cs, la, entries,
                        Some(FreshMetadata))}

(* saveEntry resumed after initializeMetadata's write: models.ts 460-472.  *)
(* The local array read at the call is pushed to and written; the entry is *)
(* serialized as the object is now.                                        *)
saveEntry_afterInit(t) ==
    LET e == heap[t.ref]
        all == Append(t.ents, e) IN
    /\ entries' = all
    /\ tasks' = (tasks \ {t}) \cup
           {[t EXCEPT !.pc = "entries", !.ents = <<>>,
                      !.meta = Some(UpdateMetadata(t.meta[1], e, all))]}
    /\ UNCHANGED <<slot, metadata>>

\* saveEntry resumed after the write of the log: models.ts 473
saveEntry_afterEntries(t) ==
    /\ metadata' = t.meta
    /\ tasks' = (tasks \ {t}) \cup {[t EXCEPT !.pc = "meta", !.meta = None]}
    /\ UNCHANGED <<entries, slot>>

(* saveEntry returned; all three callers go on with                        *)
(* saveCurrentSession(undefined): extension.ts 136, 208, 234.  That is the *)
(* last write of loadExistingSession.                                      *)
\* the last write of a stop-like handler, leaving the slot as it is
saveCurrentSession_keep(t) ==
    /\ slot' = slot
    /\ tasks' = IF t.op = "load" THEN tasks \ {t}
                ELSE (tasks \ {t}) \cup {[t EXCEPT !.pc = "clear"]}
    /\ UNCHANGED <<entries, metadata>>

saveCurrentSession_clear(t) ==
    /\ slot' = None
    /\ tasks' = IF t.op = "load" THEN tasks \ {t}
                ELSE (tasks \ {t}) \cup {[t EXCEPT !.pc = "clear"]}
    /\ UNCHANGED <<entries, metadata>>

\* the part of a stop-like handler between saveEntry's call and its end
SaveSteps(t) ==
    CASE t.pc = "init" -> saveEntry_afterInit(t)
      [] t.pc = "entries" -> saveEntry_afterEntries(t)
      [] t.pc = "meta" -> saveCurrentSession_clear(t)

----------------------------------------------------------------------------
(* activate has run (extension.ts 426-477): the startTracking command of  *)
(* autoStart is dispatched and has not run yet; deactivate has not been    *)
(* called.  found is the id of the session deactivate found running.       *)
Activated == [autoStart |-> TRUE, phase |-> "active", found |-> NoRef]

\* the state after construction, whatever the idle threshold is set to
Constructed ==
    /\ now = 1
    /\ ids = {}
    /\ project = "p1"
    /\ autoSaveInterval \in AutoSaveIntervals
    /\ out = None
    /\ life = Activated
    /\ restarts = 0
    /\ entries = <<>>
    /\ slot = None
    /\ metadata = None
    /\ heap = EmptyHeap
    /\ session = [isTracking |-> FALSE, cur |-> NoRef]
    /\ autoSave = [timer |-> FALSE, live |-> 0]
    /\ idle = [isTracking |-> FALSE, cur |-> NoRef, cb |-> FALSE,
               lastActivity |-> 1, timer |-> FALSE, live |-> 0]
    /\ tasks = {Task("load", "get", NoRef, NoRef, 0, <<>>, None)}
    /\ used = [ticks |-> 0, comments |-> 0, failures |-> 0]
    /\ fired = <<>>
    /\ lastDone = "none"

Init ==
    /\ idleThreshold = IdleThreshold
    /\ Constructed

----------------------------------------------------------------------------
(* The clock and the activity listeners *)

Tick ==
    /\ ~MicrotaskPending
    /\ now < MaxTime
    /\ now' = now + 1
    /\ UNCHANGED <<ids, env, restarts, entries, slot, metadata, heap,
                   session, autoSave, idle, tasks, used, fired, lastDone>>

\* updateActivity(): models.ts 261-265
updateActivity ==
    /\ ~MicrotaskPending
    /\ idle' = IF idle.isTracking THEN [idle EXCEPT !.lastActivity = now]
               ELSE idle
    /\ UNCHANGED <<now, ids, env, restarts, entries, slot, metadata,
                   heap, session, autoSave, tasks, used, fired, lastDone>>

----------------------------------------------------------------------------
(* SWXTimeTracker.startTracking: extension.ts 148-182 *)

\* startTracking without its guard
startTracking_alreadyRunning_never == FALSE

\* the guard of startTracking: extension.ts 149
startTracking_alreadyRunning == session.isTracking

startTracking_run ==
    IF startTracking_alreadyRunning
    THEN UNCHANGED engine
    ELSE /\ ~HeapFull
         /\ Cardinality(ids) < MaxSessions
         /\ now \notin ids
         /\ LET ref == NewRef
                e == NewEntry(now, project) IN
            /\ session' = [isTracking |-> TRUE, cur |-> ref]
            /\ idle' = IdleDetectionService_startTracking(idle, ref, now)
            /\ autoSave' = startAutoSave(autoSave)
            /\ slot' = Some(e)
            /\ heap' = Sweep([heap EXCEPT ![ref] = e], session', idle', tasks)
         /\ ids' = ids \cup {now}
         /\ lastDone' = "none"
         /\ UNCHANGED <<now, restarts, entries, metadata, tasks,
                        used, fired>>

\* the command timeTracker.startTracking: extension.ts 431
startTracking == startTracking_run /\ UNCHANGED env

----------------------------------------------------------------------------
(* SWXTimeTracker.stopTracking: extension.ts 188-216 *)

\* the guard of stopTracking without its isTracking test
stopTracking_notRunning_sessionOnly == session.cur = NoRef

\* the guard of stopTracking: extension.ts 189
stopTracking_notRunning == ~session.isTracking \/ session.cur = NoRef

stopTracking_run ==
    /\ ~MicrotaskPending
    /\ IF stopTracking_notRunning
       THEN UNCHANGED engine
       ELSE /\ Cardinality(tasks) < MaxTasks
            /\ LET ref == session.cur
                   e == [heap[ref] EXCEPT
                            !.endTime = Some(now),
                            !.duration = Some(now - heap[ref].startTime)] IN
               /\ heap' = [heap EXCEPT ![ref] = e]
               /\ idle' = IdleDetectionService_stopTracking(idle)
               /\ autoSave' = stopAutoSave(autoSave)
               /\ saveEntry(tasks, "stop", ref, NoRef, 0, e)
            /\ UNCHANGED <<now, ids, restarts, slot, session,
                           used, fired, lastDone>>

\* the command timeTracker.stopTracking: extension.ts 432
stopTracking == stopTracking_run /\ UNCHANGED env

\* a stop-like handler inside saveEntry, up to saveCurrentSession(undefined)
saveEntry_resume(t) ==
    /\ ~MicrotaskPending
    /\ t.pc \in {"init", "entries", "meta"}
    /\ SaveSteps(t)
    /\ heap' = Sweep(heap, session, idle, tasks')
    /\ UNCHANGED <<now, ids, env, restarts, session, autoSave,
                   idle, used, fired, lastDone>>

(* stopTracking after the slot is cleared: extension.ts 210-215.  Reading  *)
(* this.session.currentSession.duration throws when the current session    *)
(* has been cleared meanwhile, and the assignments are not reached.        *)
stopTracking_return(t) ==
    /\ ~MicrotaskPending
    /\ t.op = "stop" /\ t.pc = "clear"
    /\ tasks' = tasks \ {t}
    /\ IF session.cur = NoRef
       THEN UNCHANGED <<session, lastDone>>
       ELSE /\ session' = [isTracking |-> FALSE, cur |-> NoRef]
            /\ lastDone' = "stop"
    /\ UNCHANGED <<now, ids, restarts, entries, slot, metadata, used, fired>>

\* the command handler ends: extension.ts 432
stopTracking_finish(t) ==
    /\ stopTracking_return(t)
    /\ heap' = Sweep(heap, session', idle, tasks')
    /\ UNCHANGED <<env, autoSave, idle>>

----------------------------------------------------------------------------
(* The idle check and SWXTimeTracker.handleIdleTimeout *)

(* The interval callback of startIdleDetection (models.ts 288-303) up to   *)
(* the first host await of handleIdleTimeout (extension.ts 224-233).       *)
idleCheck ==
    /\ ~MicrotaskPending
    /\ idle.live > 0
    /\ IF ~idle.isTracking \/ idle.cur = NoRef \/ ~idle.cb
       THEN UNCHANGED vars
       ELSE IF now - idle.lastActivity > getIdleThreshold
       THEN /\ Cardinality(tasks) < MaxTasks
            /\ LET ref == idle.cur
                   la == idle.lastActivity
                   e == [heap[ref] EXCEPT
                            !.endTime = Some(la),
                            !.duration = Some(la - heap[ref].startTime)] IN
               /\ autoSave' = stopAutoSave(autoSave)
               /\ heap' = [heap EXCEPT ![ref] = e]
               /\ saveEntry(tasks, "idle", ref, NoRef, la, e)
               /\ fired' = Append(fired, e.id)
               /\ used' = used
            /\ UNCHANGED <<now, ids, env, restarts, slot, session,
                           idle, lastDone>>
       ELSE UNCHANGED vars

(* handleIdleTimeout after the slot is cleared (extension.ts 236-242); its *)
(* return resumes the interval callback in the microtask queue, which     *)
(* stops the idle detector (models.ts 301).                               *)
handleIdleTimeout_finish(t) ==
    /\ ~MicrotaskPending
    /\ t.op = "idle" /\ t.pc = "clear"
    /\ session' = [isTracking |-> FALSE, cur |-> NoRef]
    /\ idle' = IdleDetectionService_stopTracking(idle)
    /\ tasks' = tasks \ {t}
    /\ lastDone' = "idle"
    /\ heap' = Sweep(heap, session', idle', tasks')
    /\ UNCHANGED <<now, ids, env, restarts, entries, slot, metadata,
                   autoSave, used, fired>>

----------------------------------------------------------------------------
(* The checkpoint timer: the interval callback of startAutoSave,           *)
(* extension.ts 270-287                                                    *)

autoSaveTick ==
    /\ ~MicrotaskPending
    /\ autoSave.live > 0
    /\ IF session.isTracking /\ session.cur # NoRef
       THEN /\ Cardinality(tasks) < MaxTasks
            /\ ~HeapFull
            /\ used.ticks < MaxCheckpoints
            /\ used' = [used EXCEPT !.ticks = @ + 1]
            /\ LET cur == heap[session.cur]
                   updatedSession ==
                       [cur EXCEPT !.duration = Some(now - cur.startTime)] IN
               /\ heap' = [heap EXCEPT ![NewRef] = updatedSession]
               /\ slot' = Some(updatedSession)
               /\ tasks' = tasks \cup
                      {Task("tick", "save", NewRef, NoRef, 0, <<>>, None)}
            /\ UNCHANGED <<now, ids, env, restarts, entries, metadata,
                           session, autoSave, idle, fired, lastDone>>
       ELSE UNCHANGED vars

\* the callback after its write: extension.ts 285
autoSaveTick_finish(t) ==
    /\ ~MicrotaskPending
    /\ t.op = "tick"
    /\ session' = [session EXCEPT !.cur = t.ref]
    /\ tasks' = tasks \ {t}
    /\ heap' = Sweep(heap, session', idle, tasks')
    /\ UNCHANGED <<now, ids, env, restarts, entries, slot, metadata,
                   autoSave, idle, used, fired, lastDone>>

----------------------------------------------------------------------------
(* SWXTimeTracker.addComment, from the answer of the input box:            *)
(* extension.ts 304-316                                                    *)

addComment(input) ==
    /\ ~MicrotaskPending
    /\ IF input # "" /\ session.cur # NoRef
       THEN /\ used.comments < MaxComments
            /\ used' = [used EXCEPT !.comments = @ + 1]
            /\ heap' = [heap EXCEPT ![session.cur].comment = input]
            /\ slot' = Some(heap'[session.cur])
            /\ UNCHANGED <<now, ids, env, restarts, entries, metadata,
                           session, autoSave, idle, tasks, fired, lastDone>>
       ELSE UNCHANGED vars

----------------------------------------------------------------------------
(* SWXTimeTracker.resetToday: extension.ts 343-355 *)

resetToday ==
    /\ ~MicrotaskPending
    /\ idle' = IdleDetectionService_stopTracking(idle)
    /\ autoSave' = stopAutoSave(autoSave)
    /\ session' = [isTracking |-> FALSE, cur |-> NoRef]
    /\ slot' = None
    /\ lastDone' = IF session.isTracking \/ session.cur # NoRef
                 THEN "reset" ELSE lastDone
    /\ heap' = Sweep(heap, session', idle', tasks)
    /\ UNCHANGED <<now, ids, env, restarts, entries, metadata, tasks,
                   used, fired>>

----------------------------------------------------------------------------
(* Process start and recovery *)

(* The process ends (at any point) and the extension is activated again:   *)
(* activate and the constructor (extension.ts 92-105, 426-427), and        *)
(* loadExistingSession up to its first await (extension.ts 110-111).       *)
(* Only the three durable slots survive.                                   *)
Restart ==
    /\ restarts < MaxRestarts
    /\ restarts' = restarts + 1
    /\ project' \in Projects
    /\ autoSaveInterval' \in AutoSaveIntervals
    /\ life' = Activated
    /\ heap' = IF slot = None THEN EmptyHeap
               ELSE [EmptyHeap EXCEPT ![1] = slot[1]]
    /\ tasks' = {Task("load", "get", NoRef,
                      IF slot = None THEN NoRef ELSE 1, 0, <<>>, None)}
    /\ session' = [isTracking |-> FALSE, cur |-> NoRef]
    /\ autoSave' = [timer |-> FALSE, live |-> 0]
    /\ idle' = [isTracking |-> FALSE, cur |-> NoRef, cb |-> FALSE,
                lastActivity |-> now, timer |-> FALSE, live |-> 0]
    /\ fired' = <<>>
    /\ lastDone' = "none"
    /\ UNCHANGED <<now, ids, idleThreshold, entries, slot, metadata, used,
                   out>>

\* loadExistingSession after getCurrentSession: extension.ts 112-141
loadExistingSession(t) ==
    /\ t.op = "load" /\ t.pc = "get"
    /\ IF t.cs # NoRef /\ ~Truthy(heap[t.cs].endTime)
       THEN IF shouldResumeSession(heap[t.cs], now)
            THEN /\ session' = [isTracking |-> TRUE, cur |-> t.cs]
                 /\ idle' = IdleDetectionService_startTracking(idle, t.cs, now)
                 /\ autoSave' = startAutoSave(autoSave)
                 /\ tasks' = tasks \ {t}
                 /\ heap' = Sweep(heap, session', idle', tasks')
                 /\ UNCHANGED <<entries, slot, metadata>>
            ELSE /\ ~HeapFull
                 /\ LET stoppedSession == autoStopOldSession(heap[t.cs]) IN
                    /\ heap' = [heap EXCEPT ![NewRef] = stoppedSession]
                    /\ saveEntry(tasks \ {t}, "load", NewRef, t.cs, 0,
                                 stoppedSession)
                 /\ UNCHANGED <<slot, session, autoSave, idle>>
       ELSE /\ tasks' = tasks \ {t}
            /\ heap' = Sweep(heap, session, idle, tasks')
            /\ UNCHANGED <<entries, slot, metadata, session, autoSave, idle>>
    /\ UNCHANGED <<now, ids, env, restarts, used, fired, lastDone>>

----------------------------------------------------------------------------
Next ==
    \/ Tick
    \/ updateActivity
    \/ startTracking
    \/ stopTracking
    \/ idleCheck
    \/ autoSaveTick
    \/ resetToday
    \/ Restart
    \/ \E input \in CommentInputs : addComment(input)
    \/ \E t \in tasks : saveEntry_resume(t)
    \/ \E t \in tasks : stopTracking_finish(t)
    \/ \E t \in tasks : handleIdleTimeout_finish(t)
    \/ \E t \in tasks : autoSaveTick_finish(t)
    \/ \E t \in tasks : loadExistingSession(t)

Spec == Init /\ [][Next]_vars

----------------------------------------------------------------------------
(* Sequential use: a command or timer callback runs only when no handler   *)
(* is suspended at an await; the clock advances and the process may end at *)
(* any time.                                                               *)
NextSeq ==
    \/ Tick
    \/ Restart
    \/ Quiescent /\ updateActivity
    \/ Quiescent /\ startTracking
    \/ Quiescent /\ stopTracking
    \/ Quiescent /\ idleCheck
    \/ Quiescent /\ autoSaveTick
    \/ Quiescent /\ resetToday
    \/ Quiescent /\ \E input \in CommentInputs : addComment(input)
    \/ \E t \in tasks : saveEntry_resume(t)
    \/ \E t \in tasks : stopTracking_finish(t)
    \/ \E t \in tasks : handleIdleTimeout_finish(t)
    \/ \E t \in tasks : autoSaveTick_finish(t)
    \/ \E t \in tasks : loadExistingSession(t)

SpecSeq == Init /\ [][NextSeq]_vars

(* Sequential use under any setting of timeTracker.idleThreshold; the      *)
(* setting is read at every use (models.ts 277-281) and is not validated.  *)
InitConfig ==
    /\ idleThreshold \in IdleThresholds
    /\ Constructed

SpecConfig == InitConfig /\ [][NextSeq]_vars

----------------------------------------------------------------------------
(* Persistence failures.  A call of globalState.update may reject; the     *)
(* store is then left as it was and the awaiting handler throws at its     *)
(* await: nothing of the handler after that await runs, and no handler     *)
(* catches the exception.  Each action below is an operation whose first   *)
(* durable write fails.                                                    *)

\* startTracking, saveCurrentSession rejects: extension.ts 148-178
startTracking_writeFails ==
    /\ ~session.isTracking
    /\ ~HeapFull
    /\ Cardinality(ids) < MaxSessions
    /\ now \notin ids
    /\ used.failures < MaxFailures
    /\ used' = [used EXCEPT !.failures = @ + 1]
    /\ LET ref == NewRef
           e == NewEntry(now, project) IN
       /\ session' = [isTracking |-> TRUE, cur |-> ref]
       /\ idle' = IdleDetectionService_startTracking(idle, ref, now)
       /\ autoSave' = startAutoSave(autoSave)
       /\ heap' = Sweep([heap EXCEPT ![ref] = e], session', idle', tasks)
    /\ ids' = ids \cup {now}
    /\ lastDone' = "none"
    /\ UNCHANGED <<now, env, restarts, entries, slot, metadata, tasks, fired>>

\* stopTracking, the first write of saveEntry rejects: extension.ts 188-205
stopTracking_writeFails ==
    /\ ~MicrotaskPending
    /\ ~stopTracking_notRunning
    /\ used.failures < MaxFailures
    /\ used' = [used EXCEPT !.failures = @ + 1]
    /\ LET ref == session.cur IN
       heap' = [heap EXCEPT ![ref] =
                   [@ EXCEPT !.endTime = Some(now),
                             !.duration = Some(now - heap[ref].startTime)]]
    /\ idle' = IdleDetectionService_stopTracking(idle)
    /\ autoSave' = stopAutoSave(autoSave)
    /\ UNCHANGED <<now, ids, env, restarts, entries, slot, metadata, session,
                   tasks, fired, lastDone>>

\* addComment, saveCurrentSession rejects: extension.ts 304-313
addComment_writeFails(input) ==
    /\ ~MicrotaskPending
    /\ input # "" /\ session.cur # NoRef
    /\ used.failures < MaxFailures
    /\ used' = [used EXCEPT !.failures = @ + 1]
    /\ heap' = [heap EXCEPT ![session.cur].comment = input]
    /\ UNCHANGED <<now, ids, env, restarts, entries, slot, metadata, session,
                   autoSave, idle, tasks, fired, lastDone>>

(* The idle check whose callback's first write rejects: handleIdleTimeout  *)
(* throws at extension.ts 233, the interval callback throws at models.ts   *)
(* 298 and does not reach this.stopTracking().                             *)
idleCheck_writeFails ==
    /\ ~MicrotaskPending
    /\ idle.live > 0
    /\ idle.isTracking /\ idle.cur # NoRef /\ idle.cb
    /\ now - idle.lastActivity > getIdleThreshold
    /\ used.failures < MaxFailures
    /\ used' = [used EXCEPT !.failures = @ + 1]
    /\ LET ref == idle.cur
           la == idle.lastActivity IN
       heap' = [heap EXCEPT ![ref] =
                   [@ EXCEPT !.endTime = Some(la),
                             !.duration = Some(la - heap[ref].startTime)]]
    /\ autoSave' = stopAutoSave(autoSave)
    /\ fired' = Append(fired, heap[idle.cur].id)
    /\ UNCHANGED <<now, ids, env, restarts, entries, slot, metadata, session,
                   idle, tasks, lastDone>>

(* The operations the failures are observed with: sessions are started,   *)
(* stopped and timed out, and one write fails.                             *)
NextFail ==
    \/ Tick
    \/ updateActivity
    \/ startTracking
    \/ stopTracking
    \/ idleCheck
    \/ \E t \in tasks : saveEntry_resume(t)
    \/ \E t \in tasks : stopTracking_finish(t)
    \/ \E t \in tasks : handleIdleTimeout_finish(t)
    \/ \E t \in tasks : loadExistingSession(t)
    \/ startTracking_writeFails
    \/ stopTracking_writeFails
    \/ \E input \in CommentInputs : addComment_writeFails(input)
    \/ idleCheck_writeFails

SpecFail == Init /\ [][NextFail]_vars

----------------------------------------------------------------------------
(* The life of the extension with autoStart and autoStop enabled:          *)
(* activate dispatches the startTracking command (extension.ts 473-476),   *)
(* deactivate stops a running session and disposes the timers              *)
(* (extension.ts 484-493).  The host runs dispatched commands and resolves *)
(* awaited writes, and lets deactivate run to its end before the process   *)
(* ends; no other command is given.                                        *)

\* the dispatched command runs: extension.ts 475, 431
autoStart ==
    /\ life.phase = "active" /\ life.autoStart
    /\ startTracking_run
    /\ life' = [life EXCEPT !.autoStart = FALSE]
    /\ UNCHANGED <<project, autoSaveInterval, idleThreshold, out>>

\* deactivate up to its await, or to its end: extension.ts 484-493
deactivate ==
    /\ life.phase = "active" /\ ~life.autoStart
    /\ ~MicrotaskPending
    /\ IF session.isTracking /\ ~stopTracking_notRunning
       THEN /\ stopTracking_run
            /\ life' = [life EXCEPT !.phase = "closing",
                                    !.found = heap[session.cur].id]
       ELSE /\ autoSave' = stopAutoSave(autoSave)
            /\ idle' = IdleDetectionService_stopTracking(idle)
            /\ heap' = Sweep(heap, session, idle', tasks)
            /\ life' = [life EXCEPT !.phase = "disposed"]
            /\ UNCHANGED <<now, ids, restarts, entries, slot, metadata,
                           session, tasks, used, fired, lastDone>>
    /\ UNCHANGED <<project, autoSaveInterval, idleThreshold, out>>

(* deactivate after `await trackerInstance.stopTracking()`: dispose        *)
(* (extension.ts 492, 409-415) runs when stopTracking has returned, and is *)
(* not reached when stopTracking has thrown (extension.ts 210).            *)
deactivate_resume(t) ==
    /\ life.phase = "closing"
    /\ stopTracking_return(t)
    /\ IF session.cur = NoRef
       THEN /\ life' = [life EXCEPT !.phase = "rejected"]
            /\ UNCHANGED <<autoSave, idle>>
       ELSE /\ life' = [life EXCEPT !.phase = "disposed"]
            /\ autoSave' = stopAutoSave(autoSave)
            /\ idle' = IdleDetectionService_stopTracking(idle)
    /\ heap' = Sweep(heap, session', idle', tasks')
    /\ UNCHANGED <<project, autoSaveInterval, idleThreshold, out>>

\* the process has ended or is killed, and VS Code opens again
activate == life.phase # "closing" /\ Restart

NextLife ==
    \/ Tick
    \/ life.phase = "active" /\ updateActivity
    \/ idleCheck
    \/ autoSaveTick
    \/ activate
    \/ autoStart
    \/ deactivate
    \/ \E t \in tasks : saveEntry_resume(t)
    \/ \E t \in tasks : deactivate_resume(t)
    \/ \E t \in tasks : handleIdleTimeout_finish(t)
    \/ \E t \in tasks : autoSaveTick_finish(t)
    \/ \E t \in tasks : loadExistingSession(t)

(* time passes, a dispatched command runs, and a suspended handler is      *)
(* resumed when its write has been confirmed                               *)
FairLife ==
    /\ WF_vars(Tick)
    /\ WF_vars(autoStart)
    /\ WF_vars(\E t \in tasks : saveEntry_resume(t))
    /\ WF_vars(\E t \in tasks : deactivate_resume(t))
    /\ WF_vars(\E t \in tasks : handleIdleTimeout_finish(t))
    /\ WF_vars(\E t \in tasks : autoSaveTick_finish(t))
    /\ WF_vars(\E t \in tasks : loadExistingSession(t))

SpecLife == Init /\ [][NextLife]_vars /\ FairLife

----------------------------------------------------------------------------
(* The user leaves the editor: from then on there is no activity signal,   *)
(* no stop, no reset and no end of the process.  The two interval timers   *)
(* keep firing (models.ts 288-303, extension.ts 270-287), also while a     *)
(* handler is suspended at a write, and the host confirms every write.     *)
(* Before the user leaves, commands are given one after another.           *)

\* the last activity signal, stop or reset has happened
leave ==
    /\ life.phase = "active"
    /\ ~MicrotaskPending
    /\ life' = [life EXCEPT !.phase = "away"]
    /\ UNCHANGED <<project, autoSaveInterval, idleThreshold, out, engine>>

NextIdle ==
    \/ Tick
    \/ leave
    \/ idleCheck
    \/ autoSaveTick
    \/ life.phase = "active" /\ Restart
    \/ life.phase = "active" /\ Quiescent /\ updateActivity
    \/ life.phase = "active" /\ Quiescent /\ stopTracking
    \/ life.phase = "active" /\ Quiescent /\ resetToday
    \/ (life.phase = "active" => Quiescent) /\ startTracking
    \/ (life.phase = "active" => Quiescent)
          /\ \E input \in CommentInputs : addComment(input)
    \/ \E t \in tasks : saveEntry_resume(t)
    \/ \E t \in tasks : stopTracking_finish(t)
    \/ \E t \in tasks : handleIdleTimeout_finish(t)
    \/ \E t \in tasks : autoSaveTick_finish(t)
    \/ \E t \in tasks : loadExistingSession(t)

(* time passes, the idle check fires every minute (models.ts 303), and     *)
(* a suspended handler is resumed when its write has been confirmed        *)
FairIdle ==
    /\ WF_vars(Tick)
    /\ WF_vars(idleCheck)
    /\ WF_vars(\E t \in tasks : saveEntry_resume(t))
    /\ WF_vars(\E t \in tasks : stopTracking_finish(t))
    /\ WF_vars(\E t \in tasks : handleIdleTimeout_finish(t))
    /\ WF_vars(\E t \in tasks : autoSaveTick_finish(t))
    /\ WF_vars(\E t \in tasks : loadExistingSession(t))

SpecIdle == Init /\ [][NextIdle]_vars /\ FairIdle

----------------------------------------------------------------------------
(* Properties *)

Finalized(e) ==
    /\ e.endTime # None
    /\ e.duration # None
    /\ e.duration[1] = e.endTime[1] - e.startTime

RECURSIVE SumDuration(_)
SumDuration(log) ==
    IF log = <<>> THEN 0
    ELSE OrZero(Last(log).duration) + SumDuration(SubSeq(log, 1, Len(log) - 1))

DistinctProjects(log) == {log[k].project : k \in DOMAIN log}

----------------------------------------------------------------------------
(* Reports: DataService.getMonthlyReport and exportToCSV (models.ts        *)
(* 513-625) over a log the host holds.  A calendar date is the string      *)
(* YYYY-MM-DD, kept as <<month, day of the month>> with the year and the   *)
(* month in one component, so that a YYYY-MM string is <<month>> and       *)
(* startsWith is the prefix test; the empty sequence is the empty string   *)
(* or undefined.                                                           *)

MaxReportLog == 3
MaxReportTime == 4
\* days of a calendar month, in model days
DaysPerMonth == 2
\* 3600000 ms, in model time units
HourLen == 3

\* entry.date as the string it is
DateStr(d) == <<d \div DaysPerMonth, d % DaysPerMonth>>

\* new Date().toISOString().slice(0, 7)
MonthStr(t) == <<DateOf(t) \div DaysPerMonth>>

\* String.prototype.startsWith
StartsWith(str, prefix) ==
    /\ Len(prefix) <= Len(str)
    /\ SubSeq(str, 1, Len(prefix)) = prefix

\* Math.round(n / d) for n >= 0, d > 0
RoundDiv(n, d) == (2 * n + d) \div (2 * d)

\* Math.round(hours * 100) / 100 of a duration, in hundredths of an hour
RoundHours(ms) == RoundDiv(ms * 100, HourLen)

\* getEntriesForMonth: models.ts 513-516
getEntriesForMonth(log, yearMonth) ==
    SelectSeq(log, LAMBDA e : StartsWith(DateStr(e.date), yearMonth))

\* `if (!entry.duration) continue`: models.ts 540
SkipsEntry(e) == ~Truthy(e.duration)

(* the loop of getMonthlyReport (models.ts 539-558): the project map in    *)
(* insertion order, durations not yet converted                            *)
RECURSIVE GroupByProject(_, _)
GroupByProject(es, acc) ==
    IF es = <<>> THEN acc
    ELSE LET e == Head(es) IN
         IF SkipsEntry(e) THEN GroupByProject(Tail(es), acc)
         ELSE IF \E k \in DOMAIN acc : acc[k].name = e.project
         THEN LET k == CHOOSE i \in DOMAIN acc : acc[i].name = e.project IN
              GroupByProject(Tail(es),
                  [acc EXCEPT ![k] = [name |-> @.name,
                                      ms |-> @.ms + e.duration[1],
                                      sessions |-> @.sessions + 1,
                                      entries |-> Append(@.entries, e)]])
         ELSE GroupByProject(Tail(es),
                  Append(acc, [name |-> e.project, ms |-> e.duration[1],
                               sessions |-> 1, entries |-> <<e>>]))

\* getMonthlyReport(yearMonth) at the instant t: models.ts 529-574
getMonthlyReport(log, yearMonth, t) ==
    LET targetMonth == IF yearMonth # <<>> THEN yearMonth ELSE MonthStr(t)
        es == getEntriesForMonth(log, targetMonth)
        counted == SelectSeq(es, LAMBDA e : ~SkipsEntry(e))
        groups == GroupByProject(es, <<>>) IN
    [month |-> targetMonth,
     totalHours |-> RoundHours(SumDuration(counted)),
     totalSessions |-> Len(counted),
     projects |-> [k \in DOMAIN groups |->
                      [name |-> groups[k].name,
                       hours |-> RoundHours(groups[k].ms),
                       sessions |-> groups[k].sessions,
                       entries |-> groups[k].entries]]]

\* the entries of all projects of a report: models.ts 601-602
RECURSIVE ProjectEntries(_)
ProjectEntries(ps) ==
    IF ps = <<>> THEN <<>>
    ELSE Head(ps).entries \o ProjectEntries(Tail(ps))

RECURSIVE InsertByStartTime(_, _)
InsertByStartTime(e, srt) ==
    IF srt = <<>> THEN <<e>>
    ELSE IF Head(srt).startTime <= e.startTime
    THEN <<Head(srt)>> \o InsertByStartTime(e, Tail(srt))
    ELSE <<e>> \o srt

\* the export without its sort
SortByStartTime_none(es) == es

\* allEntries.sort((a, b) => a.startTime - b.startTime): models.ts 603
RECURSIVE SortByStartTime(_)
SortByStartTime(es) ==
    IF es = <<>> THEN <<>>
    ELSE InsertByStartTime(Last(es),
                           SortByStartTime(SubSeq(es, 1, Len(es) - 1)))

(* one data line of the export (models.ts 605-612); the times of day and   *)
(* the minutes are kept in model time units                                *)
CsvRow(e) ==
    [date |-> DateStr(e.date), startTime |-> e.startTime,
     endTime |-> IF Truthy(e.endTime) THEN e.endTime ELSE None,
     duration |-> OrZero(e.duration),
     project |-> e.project, comment |-> e.comment]

\* exportToCSV(yearMonth) at the instant t: models.ts 595-625
exportToCSV(log, yearMonth, t) ==
    LET report == getMonthlyReport(log, yearMonth, t)
        allEntries == SortByStartTime(ProjectEntries(report.projects)) IN
    [rows |-> [k \in DOMAIN allEntries |-> CsvRow(allEntries[k])],
     totalHours |-> report.totalHours,
     totalSessions |-> report.totalSessions,
     byProject |-> [k \in DOMAIN report.projects |->
                      [name |-> report.projects[k].name,
                       hours |-> report.projects[k].hours,
                       sessions |-> report.projects[k].sessions]]]

\* the arguments given: no month, or one of the months of the model
YearMonths == {<<>>} \cup {MonthStr(t) : t \in 1 .. MaxReportTime}

\* a log entry as the engine writes it, or left without a duration
ReportEntries ==
    {[NewEntry(t, p) EXCEPT !.endTime = IF d = None THEN None
                                        ELSE Some(t + d[1]),
                            !.duration = d] :
        t \in 1 .. MaxReportTime, p \in Projects,
        d \in {None, Some(0), Some(2)}}

ReportLogs ==
    UNION {[1 .. n -> ReportEntries] : n \in 0 .. MaxReportLog}

NoQuery == [op |-> "none", arg |-> <<>>, report |-> <<>>, csv |-> <<>>,
            all |-> <<>>]

InitReport ==
    /\ now \in {1, MaxReportTime}
    /\ ids = {}
    /\ project = "p1"
    /\ autoSaveInterval = AutoSaveInterval
    /\ idleThreshold = IdleThreshold
    /\ out = None
    /\ life = [Activated EXCEPT !.autoStart = FALSE]
    /\ restarts = 0
    /\ entries \in ReportLogs
    /\ slot = None
    /\ metadata = None
    /\ heap = EmptyHeap
    /\ session = [isTracking |-> FALSE, cur |-> NoRef]
    /\ autoSave = [timer |-> FALSE, live |-> 0]
    /\ idle = [isTracking |-> FALSE, cur |-> NoRef, cb |-> FALSE,
               lastActivity |-> now, timer |-> FALSE, live |-> 0]
    /\ tasks = {}
    /\ used = [ticks |-> 0, comments |-> 0, failures |-> 0]
    /\ fired = <<>>
    /\ lastDone = "none"

DataService_getMonthlyReport(yearMonth) ==
    /\ out' = Some([NoQuery EXCEPT
                      !.op = "report", !.arg = yearMonth,
                      !.report = Some(getMonthlyReport(entries, yearMonth,
                                                       now))])
    /\ UNCHANGED <<project, autoSaveInterval, idleThreshold, life, engine>>

DataService_exportToCSV(yearMonth) ==
    /\ out' = Some([NoQuery EXCEPT
                      !.op = "csv", !.arg = yearMonth,
                      !.report = Some(getMonthlyReport(entries, yearMonth,
                                                       now)),
                      !.csv = Some(exportToCSV(entries, yearMonth, now))])
    /\ UNCHANGED <<project, autoSaveInterval, idleThreshold, life, engine>>

\* getAllEntries: models.ts 447-450
DataService_getAllEntries ==
    /\ out' = Some([NoQuery EXCEPT !.op = "all", !.all = entries])
    /\ UNCHANGED <<project, autoSaveInterval, idleThreshold, life, engine>>

NextReport ==
    \/ \E yearMonth \in YearMonths : DataService_getMonthlyReport(yearMonth)
    \/ \E yearMonth \in YearMonths : DataService_exportToCSV(yearMonth)
    \/ DataService_getAllEntries

SpecReport == InitReport /\ [][NextReport]_vars

----------------------------------------------------------------------------
(* The log and the metadata under calls of DataService that follow one     *)
(* another: saveEntry (models.ts 455-474) run from its call to its end,    *)
(* and updateEntry (models.ts 479-494).                                    *)

\* the entries saveEntry is given: finalized, of any date and project
SavedEntries == {e \in ReportEntries : e.duration # None}

(* Partial<TimeEntry>: the fields an update carries; None is a field that  *)
(* is not given                                                            *)
EntryUpdates ==
    {[duration |-> d, project |-> p] :
        d \in {None, Some(1)},
        p \in {None} \cup {Some(q) : q \in Projects}}

\* { ...entries[index], ...updates }: models.ts 484
MergeEntry(e, updates) ==
    [e EXCEPT !.duration = IF updates.duration # None
                           THEN updates.duration ELSE @,
              !.project = IF updates.project # None
                          THEN updates.project[1] ELSE @]

\* getMetadata() || initializeMetadata(): models.ts 460, 488
MetadataOrFresh == IF metadata # None THEN metadata[1] ELSE FreshMetadata

DataService_saveEntry(e) ==
    /\ Len(entries) < MaxReportLog
    /\ LET all == Append(entries, e) IN
       /\ entries' = all
       /\ metadata' = Some(UpdateMetadata(MetadataOrFresh, e, all))
    /\ UNCHANGED <<env, now, ids, restarts, slot, heap, session, autoSave,
                   idle, tasks, used, fired, lastDone>>

DataService_updateEntry(entryId, updates) ==
    /\ IF \E k \in DOMAIN entries : entries[k].id = entryId
       THEN LET index == CHOOSE k \in DOMAIN entries :
                            /\ entries[k].id = entryId
                            /\ \A j \in 1 .. k - 1 : entries[j].id # entryId
            IN
            /\ entries' = [entries EXCEPT
                              ![index] = MergeEntry(entries[index], updates)]
            /\ metadata' = IF updates.duration # None
                           THEN Some(MetadataOrFresh)
                           ELSE metadata
       ELSE UNCHANGED <<entries, metadata>>
    /\ UNCHANGED <<env, now, ids, restarts, slot, heap, session, autoSave,
                   idle, tasks, used, fired, lastDone>>

NextData ==
    \/ \E e \in SavedEntries : DataService_saveEntry(e)
    \/ \E entryId \in 1 .. MaxReportTime, updates \in EntryUpdates :
          DataService_updateEntry(entryId, updates)

SpecData == Init /\ [][NextData]_vars

(* C1: every entry of the durable log is finalized: endTime and duration   *)
(* are set and duration = endTime - startTime.                             *)
C1_LogEntriesFinalized == \A k \in DOMAIN entries : Finalized(entries[k])

\* the log holds an entry of positive duration and one written by recovery
C1_Witness ==
    /\ \E k \in DOMAIN entries : entries[k].duration[1] > 0
    /\ \E t \in tasks : t.op = "load" /\ t.pc = "meta"

(* C2: a stopTracking call that follows a returned stopTracking, with no   *)
(* startTracking in between, changes neither the log, the metadata, the    *)
(* current-session slot nor SessionState.                                  *)
C2_SecondStopIsNoOp ==
    [][(lastDone = "stop" /\ stopTracking)
          => UNCHANGED <<entries, metadata, slot, session>>]_vars

(* a stop has returned, its entry is in the log, and an in-flight          *)
(* checkpoint has put a session object back into SessionState              *)
C2_Witness ==
    /\ lastDone = "stop"
    /\ Len(entries) = 1
    /\ session.cur # NoRef

(* C3: whenever no operation is in flight, metadata.totalTrackedMs is the  *)
(* sum of the durations in the log and metadata.projectCount the number of *)
(* distinct projects in it (stated for runs without a process restart).    *)
C3_AggregationInvariant ==
    (Quiescent /\ restarts = 0) =>
        IF metadata = None THEN entries = <<>>
        ELSE /\ metadata[1].totalTrackedMs = SumDuration(entries)
             /\ metadata[1].projectCount =
                    Cardinality(DistinctProjects(entries))

(* C4: the entry the idle-timeout handling appends for a session whose     *)
(* callback was invoked with last activity T1 has endTime = T1 and         *)
(* duration = T1 - startTime.                                              *)
C4_IdleEntryEndsAtLastActivity ==
    [][\A t \in tasks' :
          (t.op = "idle" /\ t.pc = "entries" /\ t \notin tasks)
              => /\ Last(entries').endTime = Some(t.la)
                 /\ Last(entries').duration =
                        Some(t.la - Last(entries').startTime)]_vars

\* the step in which a task of operation op issues its write of the log
Appends(t, op) == t.op = op /\ t.pc = "entries" /\ t \notin tasks

\* the step in which loadExistingSession resumes after getCurrentSession
Decides(t) ==
    t.op = "load" /\ t.pc = "get" /\ t \notin tasks' /\ restarts' = restarts

StaleEntry(e) == [e EXCEPT !.endTime = Some(e.startTime + IdleThreshold),
                           !.duration = Some(IdleThreshold)]

(* C5: recovery at process start.  An empty slot leaves the engine as it   *)
(* is; a non-finalized entry younger than the idle threshold is resumed    *)
(* (Tracking, same id and startTime, idle detection and checkpoint timer   *)
(* installed, the latter when the auto-save interval is positive, nothing  *)
(* written); one at least as old as the threshold is                       *)
(* appended once with endTime = startTime + threshold and duration =       *)
(* threshold, the slot is then cleared, and recovery never sets the engine *)
(* Tracking.                                                               *)
C5_RecoveryPolicy ==
    [][/\ \A t \in tasks : Decides(t) =>
            IF t.cs = NoRef
            THEN UNCHANGED <<entries, slot, metadata, session, idle, autoSave>>
            ELSE IF heap[t.cs].endTime # None
            THEN TRUE
            ELSE IF now - heap[t.cs].startTime < IdleThreshold
            THEN /\ session'.isTracking
                 /\ heap'[session'.cur].id = heap[t.cs].id
                 /\ heap'[session'.cur].startTime = heap[t.cs].startTime
                 /\ idle'.isTracking /\ idle'.cb
                 /\ idle'.cur = session'.cur
                 /\ idle'.live = 1
                 /\ autoSave'.live = IF autoSaveInterval > 0 THEN 1 ELSE 0
                 /\ autoSave'.timer = (autoSaveInterval > 0)
                 /\ UNCHANGED <<entries, slot, metadata>>
            ELSE /\ UNCHANGED <<session, idle, autoSave, slot>>
                 /\ \E u \in tasks' : u.op = "load" /\ u.cs = t.cs
                 /\ entries' # entries =>
                        entries' = Append(entries, StaleEntry(heap[t.cs]))
       /\ \A t \in tasks' : Appends(t, "load") =>
            /\ Last(entries') = StaleEntry(heap'[t.cs])
            /\ Len(entries') = Len(entries) + 1 \/ entries' = Append(t.ents, Last(entries'))
       /\ \A t \in tasks : (t.op = "load" /\ t.pc = "meta" /\ t \notin tasks'
                             /\ restarts' = restarts) =>
            /\ slot' = None
            /\ UNCHANGED <<entries, session>>
      ]_vars

\* recovery has appended the stale session and is about to clear the slot
C5_Witness ==
    \E t \in tasks :
        /\ t.op = "load" /\ t.pc = "meta"
        /\ Last(entries) = StaleEntry(heap[t.cs])
        /\ slot # None

(* C6: the idle timeout callback is invoked at most once for a session.    *)
C6_CallbackOncePerSession ==
    \A i, j \in DOMAIN fired : i # j => fired[i] # fired[j]

(* C7: each tracked session is appended to the log at most once (stated    *)
(* for runs without a process restart).                                    *)
C7_AppendedAtMostOnce ==
    restarts = 0 =>
        \A i, j \in DOMAIN entries : i # j => entries[i].id # entries[j].id

(* C8: once stopTracking, the idle auto-stop or resetToday has completed,  *)
(* the current-session slot is empty until the next startTracking.         *)
C8_SlotStaysEmpty == lastDone # "none" => slot = None

(* C9: when recovery logs a session whose slot entry carries a checkpoint  *)
(* duration D, the logged duration is at least D.                          *)
C9_CheckpointDurationKept ==
    [][\A t \in tasks' :
          (Appends(t, "load") /\ heap'[t.cs].duration # None)
              => Last(entries').duration[1] >= heap'[t.cs].duration[1]]_vars

(* C10: whenever the engine is Tracking and no operation is in flight, the *)
(* current-session slot holds a non-finalized entry with the id of the     *)
(* in-memory current session.                                              *)
C10_SlotHoldsCurrentSession ==
    (session.isTracking /\ Quiescent) =>
        /\ slot # None
        /\ slot[1].endTime = None
        /\ slot[1].id = heap[session.cur].id

(* C11: a durable write that fails during startTracking, stopTracking,     *)
(* addComment or the idle-timeout handling leaves SessionState (isTracking *)
(* and the current session with its fields) and the armed timers as they   *)
(* were before the operation started.                                      *)
C11_FailedWriteLeavesStateUnchanged ==
    [][used'.failures # used.failures =>
          /\ session' = session
          /\ autoSave' = autoSave
          /\ idle' = idle
          /\ session.cur # NoRef => heap'[session.cur] = heap[session.cur]
      ]_vars

\* a step of the stopTracking invocation t that leaves program point pc
StopStep(t, pc) ==
    t.op = "stop" /\ t.pc = pc /\ t \notin tasks' /\ restarts' = restarts

(* C12: stopTracking called while Tracking, nothing else in flight, sets   *)
(* endTime = now and duration = endTime - startTime, stops idle detection  *)
(* and the checkpoint timer, appends exactly that entry at the end of the  *)
(* log, updates the metadata, clears the slot and leaves the engine Idle   *)
(* without a current session; called while Idle it changes nothing.        *)
C12_ManualStop ==
    [][/\ (Quiescent /\ session.isTracking /\ stopTracking) =>
            LET ref == session.cur
                e == heap'[ref] IN
            /\ e = [heap[ref] EXCEPT
                        !.endTime = Some(now),
                        !.duration = Some(now - heap[ref].startTime)]
            /\ ~idle'.isTracking /\ ~idle'.timer /\ idle'.live = 0
            /\ ~autoSave'.timer /\ autoSave'.live = 0
            /\ \E t \in tasks' : t.op = "stop" /\ t.ref = ref
            /\ session' = session /\ slot' = slot
            /\ IF metadata # None
               THEN entries' = Append(entries, e) /\ metadata' = metadata
               ELSE entries' = entries
       /\ (~session.isTracking /\ stopTracking) => UNCHANGED vars
       /\ \A t \in tasks :
            /\ StopStep(t, "init") =>
                  /\ entries' = Append(entries, heap[t.ref])
                  /\ Finalized(heap[t.ref])
            /\ StopStep(t, "entries") =>
                  /\ Last(entries) = heap[t.ref]
                  /\ entries' = entries
                  /\ metadata'[1].totalTrackedMs =
                         metadata[1].totalTrackedMs + heap[t.ref].duration[1]
                  /\ metadata'[1].projectCount =
                         Cardinality(DistinctProjects(entries))
            /\ StopStep(t, "meta") =>
                  slot' = None /\ UNCHANGED <<entries, metadata>>
            /\ StopStep(t, "clear") =>
                  /\ session' = [isTracking |-> FALSE, cur |-> NoRef]
                  /\ slot = None
                  /\ Last(entries) = heap[t.ref]
                  /\ UNCHANGED <<entries, metadata, slot, idle, autoSave>>
      ]_vars

\* a manual stop has completed and the log holds two sessions
C12_Witness ==
    /\ lastDone = "stop" /\ Quiescent /\ slot = None
    /\ ~session.isTracking /\ session.cur = NoRef
    /\ Len(entries) = 2 /\ entries[1].id # entries[2].id
    /\ metadata # None /\ metadata[1].totalTrackedMs = SumDuration(entries)
    /\ metadata[1].totalTrackedMs > 0

(* C13: startTracking called while the engine is Tracking changes nothing: *)
(* the in-memory current session, the slot, the log, the metadata and the  *)
(* armed timers stay as they are and no second session is created.         *)
C13_StartWhileTrackingIsNoOp ==
    [][(session.isTracking /\ startTracking) =>
          /\ UNCHANGED <<session, slot, entries, metadata, idle, autoSave,
                         ids>>
          /\ session.cur # NoRef => heap'[session.cur] = heap[session.cur]
      ]_vars

\* a session with a comment is being tracked and time has passed since
C13_Witness ==
    /\ session.isTracking /\ session.cur # NoRef /\ Quiescent
    /\ heap[session.cur].comment # ""
    /\ slot # None /\ slot[1].id = heap[session.cur].id
    /\ now > heap[session.cur].startTime
    /\ Cardinality(ids) < MaxSessions

(* C14: resetToday discards the open session without logging it: when it   *)
(* has completed the engine is Idle without a current session, both timers *)
(* are stopped, the slot is empty and the log and the metadata are what    *)
(* they were before the call, also with an idle-timeout callback or a      *)
(* checkpoint tick of that session in flight (no manual stop in flight).   *)
NoStopInFlight == \A t \in tasks : t.op # "stop"

C14_ResetDiscardsSession ==
    [][/\ resetToday => UNCHANGED <<entries, metadata>>
       /\ (lastDone' = "reset" /\ NoStopInFlight) =>
             /\ ~session'.isTracking /\ session'.cur = NoRef
             /\ ~idle'.isTracking /\ ~idle'.timer
             /\ ~autoSave'.timer
             /\ slot' = None
       /\ (lastDone = "reset" /\ lastDone' = "reset" /\ NoStopInFlight) =>
             UNCHANGED <<entries, metadata>>
      ]_vars

(* C15: addComment never changes the log or the metadata; with the engine  *)
(* Idle it writes no durable slot; with the engine Tracking (and nothing   *)
(* else in flight) it sets the comment on the current session and writes   *)
(* that non-finalized session to the slot.                                 *)
C15_AddComment ==
    [][\A input \in CommentInputs : addComment(input) =>
          /\ UNCHANGED <<entries, metadata>>
          /\ ~session.isTracking => UNCHANGED slot
          /\ (session.isTracking /\ Quiescent /\ input # "") =>
                /\ heap'[session.cur] =
                       [heap[session.cur] EXCEPT !.comment = input]
                /\ slot' = Some(heap'[session.cur])
                /\ slot'[1].endTime = None
      ]_vars

(* C16: a checkpoint tick happens only with a positive auto-save interval  *)
(* and while Tracking; it writes the current session with                  *)
(* duration = now - startTime to the slot and leaves the log and the       *)
(* metadata unchanged.  With an interval of zero or less no checkpoint     *)
(* timer is armed.                                                         *)
C16_CheckpointTick ==
    [][/\ used'.ticks # used.ticks =>
             /\ autoSaveInterval > 0
             /\ session.isTracking
             /\ slot' = Some([heap[session.cur] EXCEPT
                     !.duration = Some(now - heap[session.cur].startTime)])
             /\ UNCHANGED <<entries, metadata>>
       /\ autoSaveInterval' <= 0 =>
             ~autoSave'.timer /\ autoSave'.live = 0
      ]_vars

\* a checkpoint has been written some time after the session started
C16_Witness ==
    /\ used.ticks > 0 /\ autoSaveInterval > 0
    /\ session.isTracking
    /\ slot # None /\ slot[1].duration # None /\ slot[1].duration[1] > 0
    /\ slot[1].endTime = None

(* C17: updateActivity leaves lastActivity alone while idle detection is   *)
(* not tracking; a session newly registered with idle detection (started   *)
(* or resumed) begins with lastActivity = now; so the last activity that   *)
(* an idle timeout uses as endTime is never earlier than the start of the  *)
(* session it ends.                                                        *)
C17_ActivityBelongsToSession ==
    [][/\ (updateActivity /\ ~idle.isTracking) =>
             idle'.lastActivity = idle.lastActivity
       /\ (idle'.isTracking /\ (~idle.isTracking \/ idle'.cur # idle.cur)) =>
             idle'.lastActivity = now
       /\ idle'.isTracking =>
             idle'.lastActivity >= heap'[idle'.cur].startTime
       /\ Len(fired') > Len(fired) =>
             /\ idle.lastActivity >= heap[idle.cur].startTime
             /\ heap'[idle.cur].endTime = Some(idle.lastActivity)
      ]_vars

\* a later session is registered: its last activity is its own start
C17_Witness ==
    /\ idle.isTracking /\ idle.cur # NoRef
    /\ Cardinality(ids) = 2
    /\ heap[idle.cur].startTime > 1
    /\ idle.lastActivity = heap[idle.cur].startTime
    /\ \E k \in DOMAIN entries : entries[k].id # heap[idle.cur].id

(* C18: with autoStart and autoStop enabled every activation eventually    *)
(* reaches Tracking (as long as the clock of the model can give the new    *)
(* session an id).  A deactivation that finds the engine Tracking          *)
(* finalizes the session it found, then appends it to the log, then clears *)
(* the slot, and only then disposes the timers; the append and the clear   *)
(* do happen.                                                              *)
Logged(id) ==
    \E k \in DOMAIN entries : entries[k].id = id /\ Finalized(entries[k])

ClockHasRoom == now < MaxTime \/ now \notin ids

\* the stop handler of deactivate is suspended at the position pc
StopAt(pc) == \E t \in tasks : t.op = "stop" /\ t.pc = pc

\* the step takes the stop handler of deactivate to the position pc
StopReaches(pc) ==
    \E t \in tasks' \ tasks : t.op = "stop" /\ t.pc = pc

RECURSIVE SumSessions(_)
SumSessions(ps) ==
    IF ps = <<>> THEN 0 ELSE Head(ps).sessions + SumSessions(Tail(ps))

\* the entries of the log that the report of month M is about
InMonthWithDuration(log, M) ==
    SelectSeq(log, LAMBDA e : /\ StartsWith(DateStr(e.date), M)
                              /\ e.duration # None)

\* the number of times x occurs in the sequence s
Count(s, x) == Cardinality({k \in DOMAIN s : s[k] = x})

SameElements(s, u) ==
    /\ Len(s) = Len(u)
    /\ \A k \in DOMAIN s : Count(s, s[k]) = Count(u, s[k])

C19_MonthlyReport ==
    /\ (out # None /\ out[1].op = "report" /\ out[1].arg # <<>>) =>
          LET M == out[1].arg
              report == out[1].report[1]
              included == InMonthWithDuration(entries, M) IN
          /\ report.month = M
          /\ SameElements(ProjectEntries(report.projects), included)
          /\ report.totalSessions = Len(included)
          /\ report.totalSessions = SumSessions(report.projects)
          /\ report.totalHours = RoundHours(SumDuration(included))
    /\ (out # None /\ out[1].op = "all") => out[1].all = entries

(* C20: exportToCSV(M) emits exactly one data row for every entry of the   *)
(* monthly report of M, no other row, and the rows are in ascending order  *)
(* of startTime.                                                           *)
C20_ExportRows ==
    (out # None /\ out[1].op = "csv") =>
        LET rows == out[1].csv[1].rows
            reported == ProjectEntries(out[1].report[1].projects) IN
        /\ SameElements(rows, [k \in DOMAIN reported |->
                                  CsvRow(reported[k])])
        /\ \A i, j \in DOMAIN rows :
              i < j => rows[i].startTime <= rows[j].startTime

(* an export of three rows of two projects of one month, from a log that   *)
(* is not in the order of the start times and holds an entry of another    *)
(* month and an entry without a duration                                   *)
C20_Witness ==
    /\ out # None /\ out[1].op = "csv" /\ out[1].arg # <<>>
    /\ Len(out[1].csv[1].rows) = 2
    /\ Len(entries) = 3
    /\ Len(out[1].report[1].projects) = 2
    /\ out[1].csv[1].rows[1].startTime < out[1].csv[1].rows[2].startTime
    /\ \E i, j \in DOMAIN entries :
          /\ i < j /\ entries[i].startTime > entries[j].startTime
          /\ StartsWith(DateStr(entries[i].date), out[1].arg)
          /\ StartsWith(DateStr(entries[j].date), out[1].arg)
          /\ Truthy(entries[i].duration) /\ Truthy(entries[j].duration)

(* C21: in every state where no stop operation (manual stop or idle        *)
(* auto-stop) is in progress, the engine holds a current session if and    *)
(* only if isTracking is true.                                             *)
NoStopInProgress == \A t \in tasks : t.op \notin {"stop", "idle"}

C21_SessionStateConsistent ==
    NoStopInProgress => (session.cur # NoRef <=> session.isTracking)

\* the entries held as the current session, in the slot and in the log
HeldEntries ==
    (IF session.cur # NoRef THEN {heap[session.cur]} ELSE {})
       \cup (IF slot # None THEN {slot[1]} ELSE {})
       \cup {entries[k] : k \in DOMAIN entries}

(* C22 as stated: for every entry held as the current session, in the slot *)
(* or in the log, duration is present if and only if endTime is present.   *)
C22_DurationIffEndTime ==
    \A e \in HeldEntries : e.duration # None <=> e.endTime # None

(* C22: for every entry held as the current session, in the slot or in the *)
(* log, a present endTime implies a present duration, and every log entry  *)
(* carries both; an entry without endTime carries a duration only after a  *)
(* checkpoint tick, and then one between 0 and now - startTime.            *)
C22_EndTimeImpliesDuration ==
    /\ \A e \in HeldEntries :
          /\ e.endTime # None => e.duration # None
          /\ (e.endTime = None /\ e.duration # None) =>
                /\ used.ticks > 0
                /\ e.duration[1] \in 0 .. (now - e.startTime)
    /\ \A k \in DOMAIN entries :
          entries[k].endTime # None /\ entries[k].duration # None

(* the slot and the current session carry a checkpoint duration and no     *)
(* endTime, beside a finalized entry in the log                            *)
C22_Witness ==
    /\ entries # <<>>
    /\ slot # None /\ slot[1].endTime = None /\ slot[1].duration # None
    /\ session.isTracking /\ session.cur # NoRef
    /\ heap[session.cur].endTime = None
    /\ heap[session.cur].duration # None

(* C23: on every stop path (manual stop and idle auto-stop) the idle-check *)
(* timer and the checkpoint timer are both cancelled when the write that   *)
(* appends the finalized entry to the log is issued.                       *)
C23_TimersCancelledBeforeAppend ==
    [][\A t \in tasks' :
          (Appends(t, "stop") \/ Appends(t, "idle")) =>
              /\ ~idle'.timer /\ idle'.live = 0
              /\ ~autoSave'.timer /\ autoSave'.live = 0]_vars

(* C24: cancelling a timer that is already stopped changes nothing, and    *)
(* once a cancellation has returned, the continuation of a timer callback  *)
(* that was in flight writes neither SessionState, the slot, the log nor   *)
(* the state of the idle detector.                                         *)

\* the timer whose callback t is was cancelled after t was invoked
CancelledCallback(t) ==
    \/ /\ t.op = "tick"
       /\ \/ ~autoSave.timer
          \/ session.cur = NoRef
          \/ heap[session.cur].id # heap[t.ref].id
    \/ /\ t.op = "idle"
       /\ idle.cur # t.ref

C24_CancellationIsFinal ==
    [][/\ ~autoSave.timer => stopAutoSave(autoSave) = autoSave
       /\ (~idle.timer /\ ~idle.isTracking) =>
             IdleDetectionService_stopTracking(idle) = idle
       /\ \A t \in tasks :
             (CancelledCallback(t) /\ t \notin tasks' /\ restarts' = restarts)
                => UNCHANGED <<session, slot, entries, idle>>
      ]_vars

(* C25: the entry log is append-only: every step leaves the log unchanged  *)
(* or extends it by one entry at its end.                                  *)
C25_LogAppendOnly ==
    [][\/ entries' = entries
       \/ /\ Len(entries') = Len(entries) + 1
          /\ SubSeq(entries', 1, Len(entries)) = entries]_vars

(* C26: whenever the log has been written by saveEntry or updateEntry,     *)
(* metadata.totalTrackedMs is the sum of the durations in the log and      *)
(* metadata.projectCount the number of distinct projects in the log.       *)
C26_AggregatesAfterUpdate ==
    entries # <<>> =>
        /\ metadata # None
        /\ metadata[1].totalTrackedMs = SumDuration(entries)
        /\ metadata[1].projectCount = Cardinality(DistinctProjects(entries))

(* C29: after any sequence of saveEntry calls metadata.firstTrackingDate   *)
(* is the minimum date over the entries of the log; it is absent only      *)
(* while the log is empty; absent metadata is created with zero totals by  *)
(* the first write, which then counts the entry it saves.                  *)
MinDate(log) ==
    CHOOSE d \in {log[k].date : k \in DOMAIN log} :
        \A k \in DOMAIN log : d <= log[k].date

C29_FirstTrackingDate ==
    [][/\ entries' # <<>> =>
             /\ metadata' # None
             /\ metadata'[1].firstTrackingDate = Some(MinDate(entries'))
       /\ entries' = <<>> => metadata' = None
       /\ (metadata = None /\ metadata' # None) =>
             /\ Len(entries') = 1
             /\ metadata'[1].totalTrackedMs = OrZero(entries'[1].duration)
             /\ metadata'[1].projectCount = 1
      ]_vars

(* the third entry saved has an earlier date than the two before it, and   *)
(* the first tracking date is its date                                     *)
C29_Witness ==
    /\ Len(entries) = 3
    /\ entries[3].date < entries[1].date
    /\ entries[1].date < entries[2].date
    /\ metadata # None
    /\ metadata[1].firstTrackingDate = Some(entries[3].date)

(* C27: when the engine is Tracking and the user has left (no activity     *)
(* signal, stop, reset or end of the process happens any more), the idle   *)
(* check keeps firing and writes complete, then the engine eventually is   *)
(* Idle with the slot empty, the session in the log and no idle-check      *)
(* timer armed.  The clock of the model must be able to pass the idle      *)
(* threshold and the log of the model must have room for the entry.        *)
IdleCanFire ==
    /\ idle.lastActivity + getIdleThreshold < MaxTime
    /\ Len(entries) < MaxLog

TrackingSession(id) ==
    /\ session.isTracking
    /\ session.cur # NoRef
    /\ heap[session.cur].id = id

IdleAndLogged(id) ==
    /\ ~session.isTracking
    /\ slot = None
    /\ Logged(id)
    /\ ~idle.timer /\ idle.live = 0

C27_IdleAutoStopHappens ==
    \A id \in 1 .. MaxTime :
        [](life.phase = "away" /\ TrackingSession(id) /\ IdleCanFire
             => <>IdleAndLogged(id))

(* C28: with a negative configured idle threshold the idle check does not  *)
(* stop a session that is not idle (the threshold is clamped or the        *)
(* feature is off), and neither idle handling nor startup recovery appends *)
(* an entry that ends before it starts: every entry of the log has a       *)
(* duration of at least 0.                                                 *)
C28_NegativeThresholdIsHarmless ==
    /\ [](idleThreshold < 0 =>
            \A k \in DOMAIN entries :
                /\ entries[k].duration # None => entries[k].duration[1] >= 0
                /\ entries[k].endTime # None =>
                       entries[k].endTime[1] >= entries[k].startTime)
    /\ [][(idleThreshold < 0 /\ Len(fired') > Len(fired)) =>
              now - idle.lastActivity > 0]_vars

(* C30: the entry that a manual stop or the idle timeout appends to the    *)
(* log for the current session carries the comment of the current session  *)
(* (the object addComment writes to), whether or not a checkpoint tick has *)
(* replaced the current session object since the session started.          *)
C30_CommentReachesLog ==
    [][\A t \in tasks' :
          (/\ Appends(t, "stop") \/ Appends(t, "idle")
           /\ session.cur # NoRef
           /\ heap[session.cur].id = Last(entries').id)
              => Last(entries').comment = heap[session.cur].comment]_vars

(* C31: at most one idle-check timer and at most one checkpoint timer are  *)
(* armed at any time; when the engine is Idle and no operation is in       *)
(* flight, neither timer is armed and the idle detector holds no session   *)
(* and no callback.                                                        *)
C31_TimerDiscipline ==
    /\ idle.live <= 1
    /\ autoSave.live <= 1
    /\ (~session.isTracking /\ Quiescent) =>
          /\ ~idle.timer /\ idle.live = 0
          /\ ~autoSave.timer /\ autoSave.live = 0
          /\ idle.cur = NoRef
          /\ ~idle.cb

(* C32: every finalized log entry of month M is one session of             *)
(* getMonthlyReport(M) and is in the entries list of its project, also     *)
(* when its duration is 0; totalSessions is the number of finalized        *)
(* entries dated in M.                                                     *)
FinalizedInMonth(log, M) ==
    SelectSeq(log, LAMBDA e : StartsWith(DateStr(e.date), M) /\ Finalized(e))

C32_ZeroDurationCounted ==
    (out # None /\ out[1].op = "report" /\ out[1].arg # <<>>) =>
        LET M == out[1].arg
            report == out[1].report[1]
            finalized == FinalizedInMonth(entries, M) IN
        /\ report.totalSessions = Len(finalized)
        /\ \A k \in DOMAIN finalized :
              \E j \in DOMAIN report.projects :
                 /\ report.projects[j].name = finalized[k].project
                 /\ Count(report.projects[j].entries, finalized[k])
                       = Count(finalized, finalized[k])

====
